---- MODULE Spec2Model ----
(***************************************************************************)
(* Mirletis KEM core (src/src/lib.rs): branch-free primitives, key         *)
(* generation, encapsulation and decapsulation, as a state machine.        *)
(*                                                                         *)
(* Rust arrays are 0-indexed; every buffer is a function on 0..len-1 so    *)
(* that the index expressions of the source are kept verbatim.             *)
(* i32 values are integers in -2^31 .. 2^31-1; wrapping operations work on *)
(* the two 16-bit halves of the two's complement pattern.                  *)
(***************************************************************************)
EXTENDS Integers, Sequences, FiniteSets, TLC

(* ------------------------------ bounds -------------------------------- *)

\* Number of distinct entropy strings the OS RNG can return (seeds 1..MaxSeed;
\* 0 stands for the all-zero, wiped buffer).
MaxSeed == 3

\* Length of the mask array; the source has N / 8 = 32 bytes (N = 256).
MaskBytes == 1

(* ----------------------------- constants ------------------------------ *)

N == 8 * MaskBytes

K == 5

Q_MASK == 8191

SHIFT == 5

DOM_MATRIX == 0

DOM_SECRET == 1

DOM_HASH == 2

(* ---------------------- 32-bit wrapping arithmetic -------------------- *)

Lo16(x) == x % 65536

Hi16(x) == (x \div 65536) % 65536

\* The i32 whose two's complement pattern has the halves h (high), l (low).
FromHalves(h, l) == (IF h >= 32768 THEN h - 65536 ELSE h) * 65536 + l

wrapping_sub(a, b) ==
  LET lo == Lo16(a) - Lo16(b)
      borrow == IF lo < 0 THEN 1 ELSE 0
      hi == Hi16(a) - Hi16(b) - borrow
  IN FromHalves(hi % 65536, lo % 65536)

wrapping_add(a, b) ==
  LET lo == Lo16(a) + Lo16(b)
      carry == IF lo >= 65536 THEN 1 ELSE 0
      hi == Hi16(a) + Hi16(b) + carry
  IN FromHalves(hi % 65536, lo % 65536)

wrapping_neg(a) == wrapping_sub(0, a)

\* (a as i32).wrapping_mul(b as i32) where a and b are casts of u8 / i16
\* values: |a * b| <= 2^30, so the product is exact and then reduced.
wrapping_mul(a, b) == FromHalves(Hi16(a * b), Lo16(a * b))

RECURSIVE AndNat(_, _)
AndNat(a, b) ==
  IF a = 0 \/ b = 0 THEN 0
  ELSE (a % 2) * (b % 2) + 2 * AndNat(a \div 2, b \div 2)

RECURSIVE OrNat(_, _)
OrNat(a, b) ==
  IF a = 0 THEN b
  ELSE IF b = 0 THEN a
  ELSE (IF a % 2 = 1 \/ b % 2 = 1 THEN 1 ELSE 0) + 2 * OrNat(a \div 2, b \div 2)

RECURSIVE XorNat(_, _)
XorNat(a, b) ==
  IF a = 0 THEN b
  ELSE IF b = 0 THEN a
  ELSE ((a + b) % 2) + 2 * XorNat(a \div 2, b \div 2)

And32(a, b) == FromHalves(AndNat(Hi16(a), Hi16(b)), AndNat(Lo16(a), Lo16(b)))

Or32(a, b) == FromHalves(OrNat(Hi16(a), Hi16(b)), OrNat(Lo16(a), Lo16(b)))

Xor32(a, b) == FromHalves(XorNat(Hi16(a), Hi16(b)), XorNat(Lo16(a), Lo16(b)))

\* (x as u32) >> 31 : the top bit of the pattern.
U32Shr31(x) == Hi16(x) \div 32768

\* x >> n on an i32 is an arithmetic shift: floor division by 2^n (n < 31).
RECURSIVE Pow2(_)
Pow2(n) == IF n = 0 THEN 1 ELSE 2 * Pow2(n - 1)

Shr32(x, n) == x \div Pow2(n)

\* v as u8, v as u16, v as i16 : truncating casts.
AsU8(v) == v % 256

AsU16(v) == v % 65536

AsI16(v) == IF v % 65536 >= 32768 THEN (v % 65536) - 65536 ELSE v % 65536

(* ------------------------- mod ct (lines 93-180) ---------------------- *)

sign32(x) == (x \div 65536) \div 32768

\* Mutant: the subtraction of the sign mask is left out.
abs32_Mut(x) == Xor32(x, sign32(x))

abs32(x) ==
  LET m == sign32(x)
  IN wrapping_sub(Xor32(x, m), m)

min32(a, b) ==
  LET d == wrapping_sub(a, b)
  IN wrapping_add(b, And32(d, sign32(d)))

lt32(a, b) == U32Shr31(wrapping_sub(a, b))

\* Mutant: the final 1 ^ is left out.
eq32_Mut(a, b) ==
  LET diff == Xor32(a, b)
      z == Or32(diff, wrapping_neg(diff))
  IN U32Shr31(z)

eq32(a, b) ==
  LET diff == Xor32(a, b)
      z == Or32(diff, wrapping_neg(diff))
  IN XorNat(1, U32Shr31(z))

\* Mutant: the two operands are taken the wrong way round.
sel_u8_Mut(a, b, cond) ==
  LET mask == (0 - AsU8(cond)) % 256
  IN OrNat(AndNat(b, mask), AndNat(a, 255 - mask))

sel_u8(a, b, cond) ==
  LET mask == (0 - AsU8(cond)) % 256
  IN OrNat(AndNat(a, mask), AndNat(b, 255 - mask))

sel_i16(a, b, cond) ==
  LET mask == AsU16(0 - AsI16(cond))
  IN AsI16(OrNat(AndNat(AsU16(a), mask), AndNat(AsU16(b), 65535 - mask)))

\* Mutant: = in place of |=.
bit_set_Mut(arr, i, v) ==
  [arr EXCEPT ![i \div 8] = (AsU8(v) * Pow2(i % 8)) % 256]

\* arr[i >> 3] |= (v as u8) << (i & 7)
bit_set(arr, i, v) ==
  [arr EXCEPT ![i \div 8] = OrNat(@, (AsU8(v) * Pow2(i % 8)) % 256)]

\* ((arr[i >> 3] >> (i & 7)) & 1) as u32
bit_get(arr, i) == AndNat(arr[i \div 8] \div Pow2(i % 8), 1)

ternary(r) ==
  LET val == AndNat(r, 3)
      base == val - 1
      is_three == eq32(val, 3)
  IN sel_i16(0, AsI16(base), is_three)

safe_zone(v) ==
  LET val == v
      d1 == abs32(val - 32)
      d2 == abs32(val - 96)
      d3 == abs32(val - 160)
      d4 == abs32(val - 224)
      m == min32(min32(d1, d2), min32(d3, d4))
  IN lt32(m, 12)

(* --------------- hash engine (lines 184-197, external sha3) ----------- *)

\* The OS RNG returns one of the entropy strings 1..MaxSeed.
Seeds == 1 .. MaxSeed

\* Byte n of SHAKE-256(domain || seed).  The permutation itself is the sha3
\* crate's; it is represented by a fixed deterministic byte stream per
\* (seed, domain), which is all the callers rely on.
Shake(seed, domain, n) ==
  LET y == 257 * seed + 211 * domain + n + 1
  IN ((y * y) % 65521) % 256

mir_shake_xof(len, seed, domain) == [n \in 0 .. len - 1 |-> Shake(seed, domain, n)]

\* SHA3-256(domain || data), taken as collision-free: the digest is
\* represented by its preimage.
mir_sha3_256(data, domain) == <<domain>> \o data

Zeros(len) == [n \in 0 .. len - 1 |-> 0]

\* Mutant: &buf in place of &buf[..widx].
Slice_Mut(b, w) == [n \in 1 .. N |-> b[n - 1]]

\* &buf[..widx] as the sequence of its bytes.
Slice(b, w) == [n \in 1 .. w |-> b[n - 1]]

(* ------------- matrix and secret generation (lines 201-234) ----------- *)

gen_matrix_a(seed) ==
  LET len == K * K * N
      b == mir_shake_xof(len * 2, seed, DOM_MATRIX)
  IN [i \in 0 .. len - 1 |->
        LET val == b[2 * i] + 256 * b[2 * i + 1]
        IN AsI16(And32(val, Q_MASK))]

\* The scratch buffer of gen_secret_from_seed after the XOF call.
SecretScratch(seed, len) == mir_shake_xof(len, seed, DOM_SECRET)

\* out_s after the conversion loop.
gen_secret_from_seed(seed, len) ==
  LET b == SecretScratch(seed, len)
  IN [i \in 0 .. len - 1 |-> ternary(b[i])]

(* -------------------------- linear core ------------------------------- *)

\* Mutant: the shift is one bit short.
Compress_Mut(acc) == AsU8(Shr32(And32(acc, Q_MASK), SHIFT - 1))

\* ((acc & Q_MASK) >> SHIFT) as u8
Compress(acc) == AsU8(Shr32(And32(acc, Q_MASK), SHIFT))

\* (acc & 0xFF) as u8
LowByte(acc) == AsU8(And32(acc, 255))

\* keygen: idx_a = (i * K * N) + (l * N) + j
KgIdxA(i, l, j) == (i * K * N) + (l * N) + j

\* Mutant: keygen's index, without the transposition.
EncIdxA_Mut(i, l, j) == (i * K * N) + (l * N) + j

\* encaps: idx_a = (l * K * N) + (i * N) + j
EncIdxA(i, l, j) == (l * K * N) + (i * N) + j

\* acc of keygen's inner loop after n iterations (l = 0 .. n-1).
RECURSIVE KgAcc(_, _, _, _, _)
KgAcc(A, s, i, j, n) ==
  IF n = 0 THEN 0
  ELSE LET l == n - 1
           term == wrapping_mul(A[KgIdxA(i, l, j)], s[(l * N) + j])
       IN wrapping_add(KgAcc(A, s, i, j, l), term)

KgComputeB(A, s) ==
  [c \in 0 .. K * N - 1 |-> Compress(KgAcc(A, s, c \div N, c % N, K))]

\* acc of encaps' inner loop for u after n iterations.
RECURSIVE EncAccU(_, _, _, _, _)
EncAccU(A, rr, i, j, n) ==
  IF n = 0 THEN 0
  ELSE LET l == n - 1
           term == wrapping_mul(A[EncIdxA(i, l, j)], rr[(l * N) + j])
       IN wrapping_add(EncAccU(A, rr, i, j, l), term)

EncComputeU(A, rr) ==
  [c \in 0 .. K * N - 1 |-> Compress(EncAccU(A, rr, c \div N, c % N, K))]

\* acc of encaps' inner loop for v after n iterations.
RECURSIVE EncAccV(_, _, _, _)
EncAccV(b, rr, j, n) ==
  IF n = 0 THEN 0
  ELSE LET l == n - 1
           term == wrapping_mul(b[(l * N) + j], rr[(l * N) + j])
       IN wrapping_add(EncAccV(b, rr, j, l), term)

EncComputeV(b, rr) == [j \in 0 .. N - 1 |-> LowByte(EncAccV(b, rr, j, K))]

\* acc of decaps' inner loop for v' after n iterations.
RECURSIVE DecAccV(_, _, _, _)
DecAccV(u, s, j, n) ==
  IF n = 0 THEN 0
  ELSE LET l == n - 1
           term == wrapping_mul(u[(l * N) + j], s[(l * N) + j])
       IN wrapping_add(DecAccV(u, s, j, l), term)

\* Mutant: the inner loop stops one term early.
DecComputeVp_Mut(u, s) == [j \in 0 .. N - 1 |-> LowByte(DecAccV(u, s, j, K - 1))]

DecComputeVp(u, s) == [j \in 0 .. N - 1 |-> LowByte(DecAccV(u, s, j, K))]

\* The indices of s that decaps' loops read.
DecIndicesS == {(l * N) + j : l \in 0 .. K - 1, j \in 0 .. N - 1}

\* (val >> 6) & 1
Bit6(val) == AndNat(val \div 64, 1)

(* ------------------------------ state --------------------------------- *)

VARIABLES
  pc,            \* position in the running operation
  x, sz, tn,     \* a byte handed to a primitive, and safe_zone / ternary of it
  master_seed,   \* keygen: the 64-byte RNG buffer as <<front half, back half>>
  xof_scratch,   \* gen_secret_from_seed: its local buf
  s_temp,        \* keygen: the expanded secret before it moves into the vault
  matrix_a,      \* keygen / encaps: the expanded matrix
  pk_seed, pk_b, \* MirPubkey
  vault_s,       \* MirSecretVault.secret_s
  eph_seed, r,   \* encaps: ephemeral seed and r
  ct_u, ct_mask, ct_cnt,  \* MirCiphertext
  v, buf, widx, idx,      \* encaps: v and the selection loop
  key_bob,       \* encaps' MirSharedKey
  tampered,      \* the mask bit altered in transit, -1 when none
  v_prime, dbuf, dwidx, didx,  \* decaps: v' and the harvest loop
  key_alice,     \* decaps' MirSharedKey
  h_v            \* history: v as encaps computed it, before the wipe

vars == <<pc, x, sz, tn, master_seed, xof_scratch, s_temp, matrix_a, pk_seed,
          pk_b, vault_s, eph_seed, r, ct_u, ct_mask, ct_cnt, v, buf, widx, idx,
          key_bob, tampered, v_prime, dbuf, dwidx, didx, key_alice, h_v>>

primVars == <<x, sz, tn>>

kgVars == <<master_seed, s_temp, pk_seed, pk_b, vault_s>>

encVars == <<eph_seed, r, ct_u, ct_mask, ct_cnt, v, buf, widx, idx, key_bob, h_v>>

decVars == <<tampered, v_prime, dbuf, dwidx, didx, key_alice>>

\* Nothing allocated or drawn yet.
InitPrim == x = 0 /\ sz = 0 /\ tn = 0

InitKg ==
  /\ master_seed = <<0, 0>> /\ xof_scratch = <<>> /\ s_temp = <<>>
  /\ matrix_a = <<>> /\ pk_seed = 0 /\ pk_b = Zeros(K * N) /\ vault_s = <<>>

InitEnc ==
  /\ eph_seed = 0 /\ r = <<>>
  /\ ct_u = Zeros(K * N) /\ ct_mask = Zeros(N \div 8) /\ ct_cnt = 0
  /\ v = Zeros(N) /\ buf = Zeros(N) /\ widx = 0 /\ idx = 0
  /\ key_bob = <<>> /\ h_v = Zeros(N)

InitDec ==
  /\ tampered = -1
  /\ v_prime = Zeros(N) /\ dbuf = Zeros(N) /\ dwidx = 0 /\ didx = 0
  /\ key_alice = <<>>

(* ------------------------- keygen (lines 242-287) --------------------- *)

\* lines 243-250: draw the master seed, copy its front half into pk.seed.
KgSeed ==
  /\ pc = "kg_start"
  /\ \E front \in Seeds, back \in Seeds :
       /\ master_seed' = <<front, back>>
       /\ pk_seed' = front
  /\ pc' = "kg_secret"
  /\ UNCHANGED <<primVars, xof_scratch, s_temp, matrix_a, pk_b, vault_s, encVars, decVars>>

\* lines 253-254 with 222-231: expand the back half into s_temp.
KgSecret ==
  /\ pc = "kg_secret"
  /\ xof_scratch' = SecretScratch(master_seed[2], K * N)
  /\ s_temp' = gen_secret_from_seed(master_seed[2], K * N)
  /\ pc' = "kg_wipe"
  /\ UNCHANGED <<primVars, master_seed, matrix_a, pk_seed, pk_b, vault_s, encVars, decVars>>

\* line 233 (buf.zeroize()) and line 257 (master_seed.zeroize()).
KgWipe ==
  /\ pc = "kg_wipe"
  /\ xof_scratch' = Zeros(K * N)
  /\ master_seed' = <<0, 0>>
  /\ pc' = "kg_matrix"
  /\ UNCHANGED <<primVars, s_temp, matrix_a, pk_seed, pk_b, vault_s, encVars, decVars>>

\* line 260
KgMatrix ==
  /\ pc = "kg_matrix"
  /\ matrix_a' = gen_matrix_a(pk_seed)
  /\ pc' = "kg_b"
  /\ UNCHANGED <<primVars, master_seed, xof_scratch, s_temp, pk_seed, pk_b, vault_s, encVars, decVars>>

\* lines 264-281
KgB ==
  /\ pc = "kg_b"
  /\ pk_b' = KgComputeB(matrix_a, s_temp)
  /\ pc' = "kg_ret"
  /\ UNCHANGED <<primVars, master_seed, xof_scratch, s_temp, matrix_a, pk_seed, vault_s, encVars, decVars>>

\* lines 284-286: s_temp moves into the vault, matrix_a is dropped.
KgReturn ==
  /\ pc = "kg_ret"
  /\ vault_s' = s_temp
  /\ s_temp' = <<>>
  /\ matrix_a' = <<>>
  /\ pc' = "kg_done"
  /\ UNCHANGED <<primVars, master_seed, xof_scratch, pk_seed, pk_b, encVars, decVars>>

\* self_test line 443 / quick_start line 8: the caller hands pk to encaps.
CallEncaps ==
  /\ pc = "kg_done"
  /\ pc' = "enc_start"
  /\ UNCHANGED <<primVars, kgVars, xof_scratch, matrix_a, encVars, decVars>>

(* ------------------------- encaps (lines 298-382) --------------------- *)

\* lines 300-304 with 222-231: draw the ephemeral seed and expand r.
EncSeed ==
  /\ pc = "enc_start"
  /\ \E e \in Seeds : eph_seed' = e
  /\ xof_scratch' = SecretScratch(eph_seed', K * N)
  /\ r' = gen_secret_from_seed(eph_seed', K * N)
  /\ pc' = "enc_wipe"
  /\ UNCHANGED <<primVars, kgVars, matrix_a, ct_u, ct_mask, ct_cnt, v, buf, widx, idx,
                 key_bob, h_v, decVars>>

\* line 233 (buf.zeroize()) and line 305 (eph_seed.zeroize()).
EncWipe ==
  /\ pc = "enc_wipe"
  /\ xof_scratch' = Zeros(K * N)
  /\ eph_seed' = 0
  /\ pc' = "enc_matrix"
  /\ UNCHANGED <<primVars, kgVars, matrix_a, r, ct_u, ct_mask, ct_cnt, v, buf, widx, idx,
                 key_bob, h_v, decVars>>

\* lines 307-313
EncMatrix ==
  /\ pc = "enc_matrix"
  /\ matrix_a' = gen_matrix_a(pk_seed)
  /\ ct_u' = Zeros(K * N)
  /\ ct_mask' = Zeros(N \div 8)
  /\ ct_cnt' = 0
  /\ pc' = "enc_u"
  /\ UNCHANGED <<primVars, kgVars, xof_scratch, eph_seed, r, v, buf, widx, idx,
                 key_bob, h_v, decVars>>

\* lines 316-333
EncU ==
  /\ pc = "enc_u"
  /\ ct_u' = EncComputeU(matrix_a, r)
  /\ pc' = "enc_v"
  /\ UNCHANGED <<primVars, kgVars, xof_scratch, matrix_a, eph_seed, r, ct_mask, ct_cnt,
                 v, buf, widx, idx, key_bob, h_v, decVars>>

\* lines 336-356: v, then the selection loop's locals.
EncV ==
  /\ pc = "enc_v"
  /\ v' = EncComputeV(pk_b, r)
  /\ h_v' = v'
  /\ buf' = Zeros(N)
  /\ widx' = 0
  /\ idx' = 0
  /\ pc' = "enc_sel"
  /\ UNCHANGED <<primVars, kgVars, xof_scratch, matrix_a, eph_seed, r, ct_u, ct_mask,
                 ct_cnt, key_bob, decVars>>

\* lines 357-368: one iteration of the selection loop.  An index outside
\* ct.mask or buf panics.
EncSelStep ==
  /\ pc = "enc_sel"
  /\ idx < N
  /\ LET val == v[idx]
         safe == safe_zone(val)
         bit == Bit6(val)
     IN IF (idx \div 8) \in DOMAIN ct_mask /\ widx \in DOMAIN buf
        THEN /\ ct_mask' = bit_set(ct_mask, idx, safe)
             /\ buf' = [buf EXCEPT ![widx] = sel_u8(bit, buf[widx], safe)]
             /\ widx' = widx + safe
             /\ idx' = idx + 1
             /\ pc' = pc
        ELSE /\ pc' = "panic"
             /\ UNCHANGED <<ct_mask, buf, widx, idx>>
  /\ UNCHANGED <<primVars, kgVars, xof_scratch, matrix_a, eph_seed, r, ct_u, ct_cnt, v,
                 key_bob, h_v, decVars>>

\* lines 370-374: cnt and the KDF over buf[..widx].
EncFinish ==
  /\ pc = "enc_sel"
  /\ idx >= N
  /\ IF widx <= N
     THEN /\ ct_cnt' = AsU16(widx)
          /\ key_bob' = mir_sha3_256(Slice(buf, widx), DOM_HASH)
          /\ pc' = "enc_cleanup"
     ELSE /\ pc' = "panic"
          /\ UNCHANGED <<ct_cnt, key_bob>>
  /\ UNCHANGED <<primVars, kgVars, xof_scratch, matrix_a, eph_seed, r, ct_u, ct_mask, v,
                 buf, widx, idx, h_v, decVars>>

\* lines 377-381: r, v and buf are wiped; matrix_a is dropped.
EncCleanup ==
  /\ pc = "enc_cleanup"
  /\ r' = Zeros(K * N)
  /\ v' = Zeros(N)
  /\ buf' = Zeros(N)
  /\ matrix_a' = <<>>
  /\ pc' = "enc_done"
  /\ UNCHANGED <<primVars, kgVars, xof_scratch, eph_seed, ct_u, ct_mask, ct_cnt, widx, idx,
                 key_bob, h_v, decVars>>

(* ------------------------ the ciphertext in transit ------------------- *)

\* self_test line 444 / quick_start line 11: ct reaches decaps as sent.
CallDecaps ==
  /\ pc = "enc_done"
  /\ pc' = "dec_start"
  /\ UNCHANGED <<primVars, kgVars, xof_scratch, matrix_a, encVars, decVars>>

FlipBit(arr, j) == [arr EXCEPT ![j \div 8] = XorNat(@, Pow2(j % 8))]

\* Scenario S6: one bit of ct.mask is flipped before decaps; u and cnt stay.
Tamper ==
  /\ pc = "enc_done"
  /\ \E j \in 0 .. N - 1 :
       /\ ct_mask' = FlipBit(ct_mask, j)
       /\ tampered' = j
  /\ pc' = "dec_start"
  /\ UNCHANGED <<primVars, kgVars, xof_scratch, matrix_a, eph_seed, r, ct_u, ct_cnt, v,
                 buf, widx, idx, key_bob, h_v, v_prime, dbuf, dwidx, didx, key_alice>>

(* ------------------------- decaps (lines 391-435) --------------------- *)

\* lines 393-416: v' inside vault.access; reading s or u past its end panics.
DecVp ==
  /\ pc = "dec_start"
  /\ IF DecIndicesS \subseteq DOMAIN vault_s /\ DecIndicesS \subseteq DOMAIN ct_u
     THEN /\ v_prime' = DecComputeVp(ct_u, vault_s)
          /\ dbuf' = Zeros(N)
          /\ dwidx' = 0
          /\ didx' = 0
          /\ pc' = "dec_sel"
     ELSE /\ pc' = "panic"
          /\ UNCHANGED <<v_prime, dbuf, dwidx, didx>>
  /\ UNCHANGED <<primVars, kgVars, xof_scratch, matrix_a, encVars, tampered, key_alice>>

\* lines 419-428: one iteration of the harvest loop.
DecSelStep ==
  /\ pc = "dec_sel"
  /\ didx < N
  /\ LET val == v_prime[didx]
         sel == bit_get(ct_mask, didx)
         bit == Bit6(val)
     IN IF (didx \div 8) \in DOMAIN ct_mask /\ dwidx \in DOMAIN dbuf
        THEN /\ dbuf' = [dbuf EXCEPT ![dwidx] = sel_u8(bit, dbuf[dwidx], sel)]
             /\ dwidx' = dwidx + sel
             /\ didx' = didx + 1
             /\ pc' = pc
        ELSE /\ pc' = "panic"
             /\ UNCHANGED <<dbuf, dwidx, didx>>
  /\ UNCHANGED <<primVars, kgVars, xof_scratch, matrix_a, encVars, tampered, v_prime,
                 key_alice>>

\* lines 431-434: the KDF over buf[..widx]; v_prime and buf are released as
\* they are.
DecFinish ==
  /\ pc = "dec_sel"
  /\ didx >= N
  /\ IF dwidx <= N
     THEN /\ key_alice' = mir_sha3_256(Slice(dbuf, dwidx), DOM_HASH)
          /\ pc' = "dec_done"
     ELSE /\ pc' = "panic"
          /\ UNCHANGED key_alice
  /\ UNCHANGED <<primVars, kgVars, xof_scratch, matrix_a, encVars, tampered, v_prime,
                 dbuf, dwidx, didx>>

(* ------------------------- primitives on a byte ----------------------- *)

PrimSafeZone ==
  /\ pc = "prim"
  /\ sz' = safe_zone(x)
  /\ pc' = "prim_sz"
  /\ UNCHANGED <<x, tn, kgVars, xof_scratch, matrix_a, encVars, decVars>>

PrimTernary ==
  /\ pc = "prim"
  /\ tn' = ternary(x)
  /\ pc' = "prim_tn"
  /\ UNCHANGED <<x, sz, kgVars, xof_scratch, matrix_a, encVars, decVars>>

\* gen_secret_from_seed (lines 221-234) on its own, for any seed.
PrimGenSecret ==
  /\ pc = "prim"
  /\ \E seed \in Seeds :
       /\ s_temp' = gen_secret_from_seed(seed, K * N)
       /\ xof_scratch' = Zeros(K * N)
  /\ pc' = "prim_gs"
  /\ UNCHANGED <<primVars, master_seed, pk_seed, pk_b, vault_s, matrix_a, encVars, decVars>>

(* --------------------------- specifications --------------------------- *)

\* An honest run: keygen, encaps, the ciphertext in transit, decaps.
Init ==
  /\ pc = "kg_start"
  /\ InitPrim /\ InitKg /\ InitEnc /\ InitDec

Next ==
  \/ KgSeed \/ KgSecret \/ KgWipe \/ KgMatrix \/ KgB \/ KgReturn
  \/ CallEncaps
  \/ EncSeed \/ EncWipe \/ EncMatrix \/ EncU \/ EncV \/ EncSelStep \/ EncFinish \/ EncCleanup
  \/ CallDecaps \/ Tamper
  \/ DecVp \/ DecSelStep \/ DecFinish

Spec == Init /\ [][Next]_vars

\* The primitives on every byte, and the secret expander on every seed.
InitP ==
  /\ pc = "prim"
  /\ x \in 0 .. 255 /\ sz = 0 /\ tn = 0
  /\ InitKg /\ InitEnc /\ InitDec

NextP == PrimSafeZone \/ PrimTernary \/ PrimGenSecret

SpecPrim == InitP /\ [][NextP]_vars

\* encaps on a caller-supplied public key: pk.seed and pk.b are public fields.
\* Here b is constant along each of its K rows: rows of 0 and 32 (values at the
\* anchors and at the bit-6 boundaries), or one value near a zone edge throughout.
PkEdgeValues == {11, 21, 255}

PkRows ==
  [0 .. K - 1 -> {0, 32}] \cup {[l \in 0 .. K - 1 |-> c] : c \in PkEdgeValues}

PkFamily == {[c \in 0 .. K * N - 1 |-> row[c \div N]] : row \in PkRows}

InitE ==
  /\ pc = "enc_start"
  /\ InitPrim /\ InitEnc /\ InitDec
  /\ master_seed = <<0, 0>> /\ xof_scratch = <<>> /\ s_temp = <<>>
  /\ matrix_a = <<>> /\ vault_s = <<>>
  /\ pk_seed = 1
  /\ pk_b \in PkFamily

NextE ==
  EncSeed \/ EncWipe \/ EncMatrix \/ EncU \/ EncV \/ EncSelStep \/ EncFinish \/ EncCleanup

SpecEnc == InitE /\ [][NextE]_vars

\* decaps on a caller-supplied ciphertext and a vault from MirSecretVault::new
\* (lines 78-80), which takes a Vec<i16> of any length and content.
VaultLens == {0, 1, K * N - 1, K * N, K * N + 1}

VaultValues == {-32768, -1, 1, 32767}

CtBytes == {0, 1, 255}

MaskByteValues == {0, 165, 255}

CntValues == {0, N, 65535}

InitD ==
  /\ pc = "dec_start"
  /\ InitPrim /\ InitDec
  /\ master_seed = <<0, 0>> /\ xof_scratch = <<>> /\ s_temp = <<>>
  /\ matrix_a = <<>> /\ pk_seed = 0 /\ pk_b = Zeros(K * N)
  /\ eph_seed = 0 /\ r = <<>> /\ v = Zeros(N) /\ buf = Zeros(N) /\ widx = 0 /\ idx = 0
  /\ key_bob = <<>> /\ h_v = Zeros(N)
  /\ \E len \in VaultLens, val \in VaultValues : vault_s = [i \in 0 .. len - 1 |-> val]
  /\ \E c \in CtBytes : ct_u = [i \in 0 .. K * N - 1 |-> c]
  /\ ct_mask \in [0 .. (N \div 8) - 1 -> MaskByteValues]
  /\ ct_cnt \in CntValues

NextD == DecVp \/ DecSelStep \/ DecFinish

SpecDec == InitD /\ [][NextD]_vars

(* ------------------------------ properties ---------------------------- *)

Abs(n) == IF n < 0 THEN -n ELSE n

Min2(a, b) == IF a <= b THEN a ELSE b

\* Bit k of a byte, arithmetically.
BitOf(byte, k) == (byte \div Pow2(k)) % 2

AllZero(b) == \A n \in DOMAIN b : b[n] = 0

\* C1: in an honest run (keygen, encaps, the ciphertext delivered unaltered)
\* decaps returns the key encaps returned; the digest stands for the hashed
\* bit sequence, so the two sequences agree in length and content.
C1_RoundTrip ==
  (pc = "dec_done" /\ tampered = -1) => key_alice = key_bob

C1_Witness ==
  /\ pc = "dec_done" /\ tampered = -1
  /\ ct_cnt >= 2
  /\ key_alice = key_bob
  /\ \E j \in 0 .. N - 1 : h_v[j] # v_prime[j]

PopCount(mask) ==
  Cardinality({j \in 0 .. 8 * Cardinality(DOMAIN mask) - 1 : BitOf(mask[j \div 8], j % 8) = 1})

\* C2: every ciphertext encaps returns has cnt = popcount(mask), 0 <= cnt <= N.
C2_CntIsPopcount ==
  pc \in {"enc_cleanup", "enc_done"} =>
    /\ ct_cnt = PopCount(ct_mask)
    /\ 0 <= ct_cnt /\ ct_cnt <= N

\* All coordinates safe.
C2_Witness == pc = "enc_done" /\ ct_cnt = N /\ PopCount(ct_mask) = N

MinDist(b) ==
  Min2(Min2(Abs(b - 32), Abs(b - 96)), Min2(Abs(b - 160), Abs(b - 224)))

SafeBytes == (21 .. 43) \cup (85 .. 107) \cup (149 .. 171) \cup (213 .. 235)

\* C3: safe_zone(v) = 1 exactly when the least distance from v to 32, 96, 160,
\* 224 is below 12, that is on 21..43, 85..107, 149..171, 213..235.
C3_SafeZoneRule ==
  pc = "prim_sz" =>
    /\ sz = (IF MinDist(x) < 12 THEN 1 ELSE 0)
    /\ (sz = 1) <=> (x \in SafeBytes)
    /\ x \in {32, 96, 160, 224} => sz = 1
    /\ x \in {0, 64, 128, 192} => sz = 0

C3_Witness == pc = "prim_sz" /\ x = 235 /\ sz = 1

\* C4: decaps never panics, whatever the ciphertext and whatever vault
\* MirSecretVault::new built.
C4_DecapsTotal == pc # "panic"

\* C5: when keygen, encaps or decaps has returned, its transient buffers that
\* held secret bytes are all zero.
C5_TransientsWiped ==
  /\ pc = "kg_done" => (master_seed = <<0, 0>> /\ AllZero(xof_scratch))
  /\ pc = "enc_done" =>
       (eph_seed = 0 /\ AllZero(xof_scratch) /\ AllZero(r) /\ AllZero(v) /\ AllZero(buf))
  /\ pc = "dec_done" => (AllZero(v_prime) /\ AllZero(dbuf))

\* C6: after an honest keygen and encaps, decaps of the ciphertext with one
\* mask bit flipped returns another key than encaps did: it hashes one bit
\* more or one bit less.
C6_TamperedMaskDiffers ==
  (pc = "dec_done" /\ tampered >= 0) =>
    /\ key_alice # key_bob
    /\ Len(key_alice) \in {Len(key_bob) - 1, Len(key_bob) + 1}

C6_Witness ==
  /\ pc = "dec_done" /\ tampered >= 0
  /\ Len(key_alice) = Len(key_bob) - 1
  /\ Len(key_alice) >= 2

TernaryTable == <<-1, 0, 1, 0>>

\* C7: ternary(r) is -1, 0, 1, 0 for r mod 4 = 0, 1, 2, 3, and every coefficient
\* gen_secret_from_seed writes is in {-1, 0, 1}.
C7_TernaryMap ==
  /\ pc = "prim_tn" => (tn = TernaryTable[(x % 4) + 1] /\ tn \in {-1, 0, 1})
  /\ pc = "prim_gs" =>
       (DOMAIN s_temp = 0 .. K * N - 1 /\ \A n \in DOMAIN s_temp : s_temp[n] \in {-1, 0, 1})

C7_Witness == pc = "prim_tn" /\ x = 255 /\ tn = 0

\* A[i, l, j] of the specification's linear core.
Coef(i, l, j) == matrix_a[(i * K + l) * N + j]

RECURSIVE SumTo(_, _)
SumTo(f, n) == IF n = 0 THEN 0 ELSE SumTo(f, n - 1) + f[n - 1]

SumB(i, j) == SumTo([l \in 0 .. K - 1 |-> Coef(i, l, j) * s_temp[l * N + j]], K)

SumU(i, j) == SumTo([l \in 0 .. K - 1 |-> Coef(l, i, j) * r[l * N + j]], K)

\* ((acc & 0x1FFF) >> 5) before the cast, on the integer acc.
Compressed(acc) == (acc % 8192) \div 32

\* C8: each byte of b is ((acc & 0x1FFF) >> 5) of sum_l A[i,l,j] * s[l,j], each
\* byte of u that of sum_l A[l,i,j] * r[l,j]; the value is in 0..255.
C8_CompressedSums ==
  /\ pc = "kg_ret" =>
       \A i \in 0 .. K - 1, j \in 0 .. N - 1 :
         /\ Compressed(SumB(i, j)) \in 0 .. 255
         /\ pk_b[i * N + j] = Compressed(SumB(i, j))
  /\ pc = "enc_v" =>
       \A i \in 0 .. K - 1, j \in 0 .. N - 1 :
         /\ Compressed(SumU(i, j)) \in 0 .. 255
         /\ ct_u[i * N + j] = Compressed(SumU(i, j))

\* A negative sum whose byte is not zero.
C8_Witness ==
  /\ pc = "enc_v"
  /\ \E i \in 0 .. K - 1, j \in 0 .. N - 1 : SumU(i, j) < 0 /\ ct_u[i * N + j] > 0

\* Bit 6 of the safe coordinates among v[0 .. n-1], in order.
RECURSIVE SafeBits(_, _)
SafeBits(vec, n) ==
  IF n = 0 THEN <<>>
  ELSE IF safe_zone(vec[n - 1]) = 1
       THEN Append(SafeBits(vec, n - 1), BitOf(vec[n - 1], 6))
       ELSE SafeBits(vec, n - 1)

\* C9: at the head of encaps' selection loop widx counts the safe coordinates
\* below idx, buf[0 .. widx) holds their bit 6 in order and the rest of buf is
\* untouched, mask bit j is safe_zone(v[j]) below idx, and the write at widx
\* is inside buf; the key is the hash of exactly those bits.
C9_SelectionLoop ==
  /\ pc # "panic"
  /\ pc = "enc_sel" =>
       /\ widx = Cardinality({j \in 0 .. idx - 1 : safe_zone(v[j]) = 1})
       /\ widx <= idx
       /\ idx < N => widx \in DOMAIN buf
       /\ Slice(buf, widx) = SafeBits(v, idx)
       /\ \A n \in widx .. N - 1 : buf[n] = 0
       /\ \A j \in 0 .. idx - 1 : BitOf(ct_mask[j \div 8], j % 8) = safe_zone(v[j])
       /\ \A j \in idx .. N - 1 : BitOf(ct_mask[j \div 8], j % 8) = 0
  /\ pc = "enc_cleanup" =>
       /\ ct_cnt = Len(SafeBits(v, N))
       /\ key_bob = mir_sha3_256(SafeBits(v, N), DOM_HASH)

\* The loop is over, safe and unsafe coordinates both occurred and a 1 was kept.
C9_Witness ==
  /\ pc = "enc_sel" /\ idx = N
  /\ 0 < widx /\ widx < N
  /\ \E n \in 0 .. widx - 1 : buf[n] = 1
  /\ safe_zone(v[0]) = 0

CircDist(a, b) == Min2((a - b) % 256, (b - a) % 256)

\* C10: in an honest run v[j] and v'[j] are at most 2K - 1 apart modulo 256,
\* and bit 6 of v'[j] is bit 6 of v[j] wherever safe_zone(v[j]) = 1.
C10_NoiseBound ==
  pc \in {"dec_sel", "dec_done"} =>
    \A j \in 0 .. N - 1 :
      /\ CircDist(h_v[j], v_prime[j]) <= 2 * K - 1
      /\ safe_zone(h_v[j]) = 1 => BitOf(v_prime[j], 6) = BitOf(h_v[j], 6)

C10_Witness ==
  /\ pc = "dec_sel"
  /\ \E j \in 0 .. N - 1 : safe_zone(h_v[j]) = 1 /\ CircDist(h_v[j], v_prime[j]) >= 7

====
